---- MODULE Spec2Model ----
(***************************************************************************)
(* Verification model of two mechanisms of buck2-change-detector:          *)
(*   - btd/src/sudo.rs      requires_sudo_recursively (label propagation)  *)
(*   - td_util/src/string.rs InternString (process-wide string interner)   *)
(***************************************************************************)
EXTENDS Integers, Sequences, FiniteSets, TLC

(***************************************************************************)
(* Bounds of the model.                                                    *)
(***************************************************************************)
MaxTargets == 3      \* largest target collection explored
MaxEdges == 3        \* largest total number of forward dependency edges
MaxRuns == 2         \* invocations of requires_sudo_recursively per behaviour
MaxLen == 2          \* longest interned content, in bytes
MaxTable == 2        \* largest interning table explored
NumThreads == 2      \* threads that call the interner
HashBuckets == 2     \* distinct values of the (lossy) hash function

VARIABLES
    \* ---- the target collection (input of requires_sudo_recursively) ----
    targets,     \* identities of the targets of the collection
    deps,        \* deps[t]: forward dependency identities of target t
    uses_sudo,   \* targets whose labels contain "uses_sudo"
    order,       \* iteration order of targets.targets() in this invocation
    \* ---- locals of one invocation ----
    pc,          \* "scan", "seed", "propagate", "parents", "done"
    i,           \* position of the for loop over targets.targets()
    rdeps,       \* HashMap<&TargetLabel, Vec<&BuckTarget>>
    todo,        \* Vec<&BuckTarget>, used as a stack
    sudos,       \* HashSet<TargetLabelKey>
    lbl,         \* the target popped by `while let Some(lbl) = todo.pop()`
    j,           \* position of the for loop over parents
    \* ---- observation of the runs ----
    pushed,      \* pushed[t]: number of todo.push(t) in this invocation
    pops,        \* number of todo.pop() that returned Some in this invocation
    runs,        \* number of invocations started
    prev,        \* result returned by the previous invocation
    prevSudo     \* uses_sudo at the time of the previous invocation

sudoVars == <<targets, deps, uses_sudo, order, pc, i, rdeps, todo, sudos, lbl, j,
              pushed, pops, runs, prev, prevSudo>>

VARIABLES
    \* ---- the interner ----
    table,       \* INTERNER: the entries in creation order, each the stored
                 \* StrData and the hash it was inserted under
    th           \* th[t]: the call of thread t in progress or last returned

internVars == <<table, th>>

VARIABLES
    \* ---- one evaluation of the key traits on given arguments ----
    probe        \* the arguments, and the values `equivalent` and `hash` gave

vars == <<sudoVars, internVars, probe>>

\* a thread that is not holding the result of an interner call; the fields
\* of a call: the operation and its arguments, the converted value and hash
\* carried to the insert, the symbol returned, how it was obtained ("hit" by
\* the lookup, "found" or "inserted" by the insert), and for a deserialization
\* the symbol whose serialized text is decoded
NoCall ==
    [pc |-> "idle", op |-> "none", args |-> <<>>, data |-> <<>>, hash |-> 0,
     res |-> 0, how |-> "none", src |-> 0]

\* no evaluation of the key traits is being observed
NoProbe ==
    [a |-> <<>>, b |-> <<>>, c |-> <<>>, x |-> <<>>, eqv |-> "none",
     hashed |-> FALSE, h3 |-> <<>>, h1 |-> <<>>]

(***************************************************************************)
(* Helpers.                                                                *)
(***************************************************************************)
RECURSIVE KSubsets(_, _)
\* the subsets of S with at most k elements
KSubsets(S, k) ==
    IF k = 0 THEN {{}}
    ELSE LET smaller == KSubsets(S, k - 1)
         IN  smaller \cup {s \cup {x} : s \in smaller, x \in S}

\* the orders in which a set of targets can be enumerated
Orders(T) ==
    {s \in [1..Cardinality(T) -> T] : \A a, b \in DOMAIN s : s[a] = s[b] => a = b}

\* targets.targets() of the collection as first loaded: ascending identities
FirstOrder(T) == [k \in 1..Cardinality(T) |-> k]

\* identities a dependency may name: the targets and one identity that
\* names no target of the collection
Idents == 1..(MaxTargets + 1)

(***************************************************************************)
(* requires_sudo_recursively                                               *)
(***************************************************************************)
\* let mut rdeps / todo / sudos: the locals at function entry
NoRdeps == [d \in {} |-> <<>>]

\* rdeps.get(&d)
RdepsGet(m, d) == IF d \in DOMAIN m THEN m[d] ELSE <<>>

\* for d in target.deps.iter() { rdeps.entry(d).or_insert(Vec::new()).push(target) }
RECURSIVE SeqOfSet(_)
SeqOfSet(S) ==
    IF S = {} THEN <<>>
    ELSE LET x == CHOOSE y \in S : \A z \in S : y <= z IN <<x>> \o SeqOfSet(S \ {x})

AddRdeps_Forward(m, t, ds) ==
    [d \in DOMAIN m \cup {t} |-> IF d = t THEN RdepsGet(m, t) \o SeqOfSet(ds) ELSE m[d]]
AddRdeps_Overwrite(m, t, ds) ==
    [d \in DOMAIN m \cup ds |-> IF d \in ds THEN <<t>> ELSE m[d]]
AddRdeps(m, t, ds) ==
    [d \in DOMAIN m \cup ds |-> IF d \in ds THEN Append(RdepsGet(m, d), t) ELSE m[d]]

\* target.labels.contains("uses_sudo")
HasLabel_Not(t) == t \notin uses_sudo
HasLabel(t) == t \in uses_sudo

\* todo.push(target)
Push_Overwrite(v, t) == <<t>>
Push(v, t) == Append(v, t)

\* what todo.pop() leaves on the work list
PopRest_Two(v) == SubSeq(v, 1, Len(v) - 2)
PopRest_Keep(v) == v
PopRest(v) == SubSeq(v, 1, Len(v) - 1)

\* the set after sudos.insert(key)
Insert_Noop(s, k) == s
Insert_Replace(s, k) == {k}
Insert(s, k) == s \cup {k}

\* the value of sudos.insert(key): true when the key was not in the set
IsNew_Always(s, k) == TRUE
IsNew(s, k) == k \notin s

\* position of the scan loop after finishing the target at position k
AfterTarget(k) == IF k < Len(order) THEN "scan" ELSE "propagate"

SudoInit ==
    \E n \in 0..MaxTargets :
      \E E \in KSubsets((1..n) \X Idents, MaxEdges) :
        \E m \in SUBSET (1..n) :
          /\ targets = 1..n
          /\ deps = [t \in 1..n |-> {d \in Idents : <<t, d>> \in E}]
          /\ uses_sudo = m
          /\ order = FirstOrder(1..n)
          /\ pc = IF n = 0 THEN "propagate" ELSE "scan"
          /\ i = 1
          /\ rdeps = NoRdeps
          /\ todo = <<>>
          /\ sudos = {}
          /\ lbl = 0
          /\ j = 0
          /\ pushed = [t \in 1..n |-> 0]
          /\ pops = 0
          /\ runs = 1
          /\ prev = {}
          /\ prevSudo = {}
          /\ table = <<>>
          /\ th = [t \in 1..NumThreads |-> NoCall]
          /\ probe = NoProbe

\* One iteration of `for target in targets.targets()` up to and including
\* todo.push(target) (sudo.rs 26-31).
ScanTarget ==
    /\ pc = "scan"
    /\ LET target == order[i] IN
       /\ rdeps' = AddRdeps(rdeps, target, deps[target])
       /\ IF HasLabel(target)
          THEN /\ todo' = Push(todo, target)
               /\ pushed' = [pushed EXCEPT ![target] = @ + 1]
               /\ pc' = "seed"
               /\ i' = i
          ELSE /\ pc' = AfterTarget(i)
               /\ i' = i + 1
               /\ UNCHANGED <<todo, pushed>>
    /\ UNCHANGED <<targets, deps, uses_sudo, order, sudos, lbl, j, pops, runs, prev, prevSudo, table, th, probe>>

\* sudos.insert(target.label_key()) of the seed branch (sudo.rs 32)
SeedInsert ==
    /\ pc = "seed"
    /\ sudos' = Insert(sudos, order[i])
    /\ pc' = AfterTarget(i)
    /\ i' = i + 1
    /\ UNCHANGED <<targets, deps, uses_sudo, order, rdeps, todo, lbl, j, pushed, pops, runs, prev, prevSudo, table, th, probe>>

\* `while let Some(lbl) = todo.pop()` with a non-empty work list, and
\* rdeps.get(&lbl.label()) (sudo.rs 36-37)
Pop ==
    /\ pc = "propagate"
    /\ todo # <<>>
    /\ lbl' = todo[Len(todo)]
    /\ todo' = PopRest(todo)
    /\ pops' = pops + 1
    /\ IF todo[Len(todo)] \in DOMAIN rdeps
       THEN pc' = "parents" /\ j' = 1
       ELSE pc' = "propagate" /\ j' = 0
    /\ UNCHANGED <<targets, deps, uses_sudo, order, i, rdeps, sudos, pushed, runs, prev, prevSudo, table, th, probe>>

\* One iteration of `for parent in parents` (sudo.rs 38-42)
VisitParent ==
    /\ pc = "parents"
    /\ LET parents == rdeps[lbl]
           parent == parents[j]
       IN  /\ sudos' = Insert(sudos, parent)
           /\ IF IsNew(sudos, parent)
              THEN /\ todo' = Push(todo, parent)
                   /\ pushed' = [pushed EXCEPT ![parent] = @ + 1]
              ELSE UNCHANGED <<todo, pushed>>
           /\ IF j < Len(parents)
              THEN pc' = "parents" /\ j' = j + 1
              ELSE pc' = "propagate" /\ j' = 0
    /\ UNCHANGED <<targets, deps, uses_sudo, order, i, rdeps, lbl, pops, runs, prev, prevSudo, table, th, probe>>

\* todo.pop() returns None: the loop ends and sudos is returned (sudo.rs 36, 46)
ReturnSudos ==
    /\ pc = "propagate"
    /\ todo = <<>>
    /\ pc' = "done"
    /\ UNCHANGED <<targets, deps, uses_sudo, order, i, rdeps, todo, sudos, lbl, j, pushed, pops, runs, prev, prevSudo, table, th, probe>>

Enter_KeepRdeps(o, marks) ==
    /\ order' = o
    /\ uses_sudo' = marks
    /\ pc' = IF Len(o) = 0 THEN "propagate" ELSE "scan"
    /\ i' = 1
    /\ rdeps' = rdeps
    /\ todo' = <<>>
    /\ sudos' = {}
    /\ lbl' = 0
    /\ j' = 0
    /\ pushed' = [t \in targets |-> 0]
    /\ pops' = 0
    /\ runs' = runs + 1
    /\ prev' = sudos
    /\ prevSudo' = uses_sudo
    /\ UNCHANGED <<targets, deps, table, th, probe>>
\* the state of a new invocation on collection (T, marks) enumerated as o
Enter(o, marks) ==
    /\ order' = o
    /\ uses_sudo' = marks
    /\ pc' = IF Len(o) = 0 THEN "propagate" ELSE "scan"
    /\ i' = 1
    /\ rdeps' = NoRdeps
    /\ todo' = <<>>
    /\ sudos' = {}
    /\ lbl' = 0
    /\ j' = 0
    /\ pushed' = [t \in targets |-> 0]
    /\ pops' = 0
    /\ runs' = runs + 1
    /\ prev' = sudos
    /\ prevSudo' = uses_sudo
    /\ UNCHANGED <<targets, deps, table, th, probe>>

\* The caller invokes the function again on the unchanged collection, which
\* it may enumerate in another order.
CallAgain ==
    /\ pc = "done"
    /\ runs < MaxRuns
    /\ \E o \in Orders(targets) : Enter(o, uses_sudo)

\* The caller marks one more target and invokes the function again.
MarkAndCall ==
    /\ pc = "done"
    /\ runs < MaxRuns
    /\ \E t \in targets \ uses_sudo : Enter(order, uses_sudo \cup {t})

RunStep == ScanTarget \/ SeedInsert \/ Pop \/ VisitParent \/ ReturnSudos

SudoNext == RunStep \/ CallAgain \/ MarkAndCall

SudoSpec == SudoInit /\ [][SudoNext]_vars

\* One invocation, which runs to completion once started: the function is
\* synchronous and never suspends.
SudoRun == SudoInit /\ [][RunStep]_vars /\ WF_vars(RunStep)

(***************************************************************************)
(* InternString                                                            *)
(***************************************************************************)
Bytes == {1, 2}

Threads == 1..NumThreads

\* the strings of at most n bytes
StrsUpTo(n) == UNION {[1..k -> Bytes] : k \in 0..n}

Strs == StrsUpTo(MaxLen)

\* the arguments (a, b, c) of new3 that are the three segments of w
Triples(w) ==
    {<<SubSeq(w, 1, la), SubSeq(w, la + 1, lab), SubSeq(w, lab + 1, Len(w))>> :
        <<la, lab>> \in {p \in (0..Len(w)) \X (0..Len(w)) : p[1] <= p[2]}}

\* the threads that are not inside a call
Callers == {t \in Threads : th[t].pc = "idle"}

\* Key(x) for the key shapes Key<&str>, Key<String>, Key<(&str, &str, &str)>
KeyStr(x) == [shape |-> "str", parts |-> <<x>>]
KeyString(x) == [shape |-> "string", parts |-> <<x>>]
KeyTriple(a, b, c) == [shape |-> "triple", parts |-> <<a, b, c>>]

\* Hasher::write: the hasher state is the byte stream it was fed
Write(state, bytes) == state \o bytes

RECURSIVE SumBytes(_)
SumBytes(stream) == IF stream = <<>> THEN 0 ELSE Head(stream) + SumBytes(Tail(stream))

\* Hasher::finish: a function of the byte stream that has collisions
Finish(state) == SumBytes(state) % HashBuckets

\* impl Hash for Key<&str>, Key<String>, Key<Box<str>>
HashOne(x) == Write(<<>>, x)

\* impl Hash for Key<(&str, &str, &str)>
HashTriple_Reversed(a, b, c) == Write(Write(Write(<<>>, c), b), a)
HashTriple_SkipMiddle(a, b, c) == Write(Write(<<>>, a), c)
HashTriple(a, b, c) == Write(Write(Write(<<>>, a), b), c)

KeyHash(key) ==
    IF key.shape = "triple"
    THEN Finish(HashTriple(key.parts[1], key.parts[2], key.parts[3]))
    ELSE Finish(HashOne(key.parts[1]))

\* impl Equivalent<StrData> for Key<&str> and for Key<String>
EquivOne_Len(x, stored) == Len(x) = Len(stored)
EquivOne(x, stored) == x = stored

\* <[u8]>::split_at(mid), which panics when mid > len
SplitAtPanics(xs, mid) == mid > Len(xs)
SplitAt(xs, mid) == <<SubSeq(xs, 1, mid), SubSeq(xs, mid + 1, Len(xs))>>

\* impl Equivalent<StrData> for Key<(&str, &str, &str)>
EquivTriple_NoThird(a, b, c, xabc) ==
    IF Len(a) + Len(b) + Len(c) # Len(xabc) THEN FALSE
    ELSE /\ a = SplitAt(xabc, Len(a))[1]
         /\ b = SplitAt(SplitAt(xabc, Len(a))[2], Len(b))[1]
EquivTriple_OneSplit(a, b, c, xabc) ==
    IF Len(a) + Len(b) + Len(c) # Len(xabc) THEN FALSE
    ELSE /\ a = SplitAt(xabc, Len(a))[1]
         /\ b = SplitAt(xabc, Len(b))[1]
         /\ c = SplitAt(xabc, Len(a) + Len(b))[2]
EquivTriple_Prefix(a, b, c, xabc) ==
    IF Len(a) + Len(b) + Len(c) # Len(xabc) THEN FALSE
    ELSE a = SplitAt(xabc, Len(a))[1]
EquivTriple(a, b, c, xabc) ==
    IF Len(a) + Len(b) + Len(c) # Len(xabc) THEN FALSE
    ELSE LET xa == SplitAt(xabc, Len(a))[1]
             xbc == SplitAt(xabc, Len(a))[2]
         IN  IF a # xa THEN FALSE
             ELSE LET xb == SplitAt(xbc, Len(b))[1]
                      xc == SplitAt(xbc, Len(b))[2]
                  IN  b = xb /\ c = xc

\* whether the evaluation of EquivTriple reaches a split_at that panics
EquivTriplePanics(a, b, c, xabc) ==
    IF Len(a) + Len(b) + Len(c) # Len(xabc) THEN FALSE
    ELSE \/ SplitAtPanics(xabc, Len(a))
         \/ /\ a = SplitAt(xabc, Len(a))[1]
            /\ SplitAtPanics(SplitAt(xabc, Len(a))[2], Len(b))

Equivalent(key, stored) ==
    IF key.shape = "triple"
    THEN EquivTriple(key.parts[1], key.parts[2], key.parts[3], stored)
    ELSE EquivOne(key.parts[1], stored)

EquivalentPanics(key, stored) ==
    /\ key.shape = "triple"
    /\ EquivTriplePanics(key.parts[1], key.parts[2], key.parts[3], stored)

\* String::push_str
PushStr(res, x) == res \o x

\* impl From<Key<&str>> for StrData: a boxed copy of the bytes
FromStr(x) == [k \in 1..Len(x) |-> x[k]]

\* impl From<Key<String>> for StrData: into_boxed_str keeps the bytes
FromString(x) == x

\* impl From<Key<(&str, &str, &str)>> for StrData
FromTriple_Swapped(a, b, c) == PushStr(PushStr(PushStr(<<>>, a), c), b)
FromTriple(a, b, c) == PushStr(PushStr(PushStr(<<>>, a), b), c)

Into(key) ==
    IF key.shape = "triple" THEN FromTriple(key.parts[1], key.parts[2], key.parts[3])
    ELSE IF key.shape = "string" THEN FromString(key.parts[1])
    ELSE FromStr(key.parts[1])

\* InternString::as_str on the symbol that points at entry s
as_str_Latest(s) == table[Len(table)].data
as_str(s) == table[s].data

\* impl Serialize: serialize_str(self.as_str())
Serialize(s) == as_str(s)

\* derive(PartialEq, Eq) on InternString(Intern<StrData>): symbols are equal
\* when they point at the same entry
SymEq(s1, s2) == s1 = s2

RECURSIVE KeyCmp_LengthFirst(_, _)
KeyCmp_LengthFirst(x, y) ==
    IF Len(x) < Len(y) THEN "lt"
    ELSE IF Len(x) > Len(y) THEN "gt"
    ELSE IF x = <<>> THEN "eq"
    ELSE IF Head(x) < Head(y) THEN "lt"
    ELSE IF Head(x) > Head(y) THEN "gt"
    ELSE KeyCmp_LengthFirst(Tail(x), Tail(y))

RECURSIVE KeyCmp(_, _)
\* derive(PartialOrd, Ord) on Key<Box<str>>: the comparison of the stored
\* strings, byte by byte, a proper prefix being less
KeyCmp(x, y) ==
    IF x = <<>> THEN (IF y = <<>> THEN "eq" ELSE "lt")
    ELSE IF y = <<>> THEN "gt"
    ELSE IF Head(x) < Head(y) THEN "lt"
    ELSE IF Head(x) > Head(y) THEN "gt"
    ELSE KeyCmp(Tail(x), Tail(y))

\* derive(PartialOrd, Ord) on InternString(Intern<StrData>): Intern<T> is
\* ordered by the T it points at, which is why Key derives Ord
SymCmp(s1, s2) == KeyCmp(table[s1].data, table[s2].data)

\* the symbols handed out so far
Symbols == 1..Len(table)

\* the entries a lookup with this key matches: same hash, and equivalent
Lookup(key) ==
    {s \in Symbols : table[s].hash = KeyHash(key) /\ Equivalent(key, table[s].data)}

\* a lookup evaluates `equivalent` on the entries of the key's bucket
LookupPanics(key) ==
    \E s \in Symbols : table[s].hash = KeyHash(key) /\ EquivalentPanics(key, table[s].data)


Slow == {t \in Threads : th[t].pc = "slow"}

\* the model stops growing the table at MaxTable entries
MayIntern(content) ==
    \/ Len(table) + Cardinality(Slow) < MaxTable
    \/ \E s \in Symbols : table[s].data = content

\* INTERNER.intern(key), first part: hash the key and look it up; on a hit
\* the call returns the entry found, on a miss it goes on to insert.
Intern(t, op, key, src) ==
    /\ th[t].pc = "idle"
    /\ IF LookupPanics(key)
       THEN th' = [th EXCEPT ![t] = [NoCall EXCEPT !.pc = "panic", !.op = op, !.args = key.parts]]
       ELSE IF Lookup(key) # {}
       THEN \E s \in Lookup(key) :
              th' = [th EXCEPT ![t] = [pc |-> "ret", op |-> op, args |-> key.parts, data |-> <<>>,
                                       hash |-> 0, res |-> s, how |-> "hit", src |-> src]]
       ELSE th' = [th EXCEPT ![t] = [pc |-> "slow", op |-> op, args |-> key.parts, data |-> Into(key),
                                     hash |-> KeyHash(key), res |-> 0, how |-> "miss", src |-> src]]
    /\ UNCHANGED table

\* INTERNER.intern(key), second part, atomic under the table's lock: the
\* converted value is inserted unless an equal entry was inserted meanwhile.
InsertIfAbsent(t) ==
    /\ th[t].pc = "slow"
    /\ LET same == {s \in Symbols : table[s].hash = th[t].hash /\ table[s].data = th[t].data}
       IN  IF same # {}
           THEN /\ \E s \in same :
                     th' = [th EXCEPT ![t].pc = "ret", ![t].res = s, ![t].how = "found",
                                         ![t].data = <<>>, ![t].hash = 0]
                /\ UNCHANGED table
           ELSE /\ table' = Append(table, [data |-> th[t].data, hash |-> th[t].hash])
                /\ th' = [th EXCEPT ![t].pc = "ret", ![t].res = Len(table) + 1, ![t].how = "inserted",
                                    ![t].data = <<>>, ![t].hash = 0]

\* InternString::new(x)
New ==
    /\ \E t \in Callers, x \in Strs : MayIntern(x) /\ Intern(t, "new", KeyStr(x), 0)
    /\ UNCHANGED <<sudoVars, probe>>

\* InternString::new3(x, y, z)
New3 ==
    /\ \E t \in Callers, w \in Strs :
          /\ MayIntern(w)
          /\ \E abc \in Triples(w) : Intern(t, "new3", KeyTriple(abc[1], abc[2], abc[3]), 0)
    /\ UNCHANGED <<sudoVars, probe>>

\* InternString::from_string(x)
From_string ==
    /\ \E t \in Callers, x \in Strs : MayIntern(x) /\ Intern(t, "from_string", KeyString(x), 0)
    /\ UNCHANGED <<sudoVars, probe>>

\* InternString::default()
Default ==
    /\ \E t \in Callers : MayIntern(<<>>) /\ Intern(t, "default", KeyStr(<<>>), 0)
    /\ UNCHANGED <<sudoVars, probe>>

\* InternString::deserialize of the text a symbol of this table was
\* serialized to, through visit_str or visit_string
DeserializeOwn ==
    /\ \E t \in Callers, s \in Symbols :
          \/ Intern(t, "visit_str", KeyStr(Serialize(s)), s)
          \/ Intern(t, "visit_string", KeyString(Serialize(s)), s)
    /\ UNCHANGED <<sudoVars, probe>>

\* InternString::deserialize of text that was serialized by another process
DeserializeForeign ==
    /\ \E t \in Callers, v \in Strs :
          /\ MayIntern(v)
          /\ \/ Intern(t, "visit_str", KeyStr(v), 0)
             \/ Intern(t, "visit_string", KeyString(v), 0)
    /\ UNCHANGED <<sudoVars, probe>>

InternSlow ==
    /\ \E t \in Threads : InsertIfAbsent(t)
    /\ UNCHANGED <<sudoVars, probe>>

\* the caller drops the InternString the call returned
Drop ==
    /\ \E t \in Threads : th[t].pc = "ret" /\ th' = [th EXCEPT ![t] = NoCall]
    /\ UNCHANGED table
    /\ UNCHANGED <<sudoVars, probe>>

InternIdle ==
    /\ table = <<>>
    /\ th = [t \in Threads |-> NoCall]

\* no invocation of requires_sudo_recursively is in progress
SudoIdle ==
    /\ targets = {} /\ deps = <<>> /\ uses_sudo = {} /\ order = <<>>
    /\ pc = "done" /\ i = 1 /\ rdeps = NoRdeps /\ todo = <<>> /\ sudos = {}
    /\ lbl = 0 /\ j = 0 /\ pushed = <<>> /\ pops = 0 /\ runs = 1
    /\ prev = {} /\ prevSudo = {}

InternInit == InternIdle /\ SudoIdle /\ probe = NoProbe

InternNext ==
    New \/ New3 \/ From_string \/ Default \/ DeserializeOwn \/ DeserializeForeign \/ InternSlow \/ Drop

InternSpec == InternInit /\ [][InternNext]_vars

(***************************************************************************)
(* The key traits on their own: Key<(&str, &str, &str)> against a stored   *)
(* StrData, for arbitrary arguments.                                       *)
(***************************************************************************)
KeyInit ==
    /\ InternIdle /\ SudoIdle
    /\ \E a \in Strs, b \in Strs, c \in Strs, x \in Strs :
          probe = [NoProbe EXCEPT !.a = a, !.b = b, !.c = c, !.x = x]

\* Key((a, b, c)).equivalent(&Key(x)): true, false, or a panic in split_at
ApplyEquivalent ==
    /\ probe.eqv = "none"
    /\ probe' = [probe EXCEPT !.eqv =
                    IF EquivTriplePanics(probe.a, probe.b, probe.c, probe.x) THEN "panic"
                    ELSE IF EquivTriple(probe.a, probe.b, probe.c, probe.x) THEN "true"
                    ELSE "false"]
    /\ UNCHANGED <<sudoVars, internVars>>

\* Key((a, b, c)).hash(state), and Key(s).hash(state) for the &str, String
\* and Box<str> keys of the content s the triple converts to
ApplyHash ==
    /\ ~probe.hashed
    /\ probe' = [probe EXCEPT !.hashed = TRUE,
                               !.h3 = HashTriple(probe.a, probe.b, probe.c),
                               !.h1 = HashOne(FromTriple(probe.a, probe.b, probe.c))]
    /\ UNCHANGED <<sudoVars, internVars>>

KeyNext == ApplyEquivalent \/ ApplyHash

KeySpec == KeyInit /\ [][KeyNext]_vars

(***************************************************************************)
(* Properties of InternString                                              *)
(***************************************************************************)
\* the threads that hold the symbol their last call returned
Returned == {t \in Threads : th[t].pc = "ret"}

\* the content a call asked for: its argument, or for new3 the concatenation
\* a ++ b ++ c of its three arguments
Requested(t) ==
    IF Len(th[t].args) = 3 THEN th[t].args[1] \o th[t].args[2] \o th[t].args[3]
    ELSE th[t].args[1]

\* the entries of the table that hold this content
EntriesOf(content) == {s \in Symbols : table[s].data = content}

\* C3: new3(a, b, c) returns a symbol whose content is a ++ b ++ c and that
\* equals the symbol new(a ++ b ++ c) returns, whichever call came first and
\* whatever the table held before.
C3_New3IsNewOfConcat ==
    \A t1 \in Returned :
       th[t1].op = "new3" =>
          /\ th[t1].res \in Symbols
          /\ as_str(th[t1].res) = Requested(t1)
          /\ \A t2 \in Returned :
                (th[t2].op = "new" /\ th[t2].args[1] = Requested(t1))
                   => SymEq(th[t1].res, th[t2].res)

\* new3 with an empty middle part created the entry next to another one,
\* and a later new of the concatenation hit it
C3_Witness ==
    \E t1, t2 \in Returned :
       /\ th[t1].op = "new3" /\ th[t1].how = "inserted"
       /\ th[t1].args[1] # <<>> /\ th[t1].args[2] = <<>> /\ th[t1].args[3] # <<>>
       /\ th[t2].op = "new" /\ th[t2].how = "hit" /\ th[t2].args[1] = Requested(t1)
       /\ SymEq(th[t1].res, th[t2].res)
       /\ th[t1].res = 2

\* C4: symbols are equal exactly when their contents are identical, whatever
\* operations produced them: two entries never hold the same content, and
\* two calls return equal symbols if and only if they asked for the same
\* content.
C4_EqualIffSameContent ==
    /\ \A s1, s2 \in Symbols : SymEq(s1, s2) <=> (as_str(s1) = as_str(s2))
    /\ \A t1, t2 \in Returned :
          SymEq(th[t1].res, th[t2].res) <=> (Requested(t1) = Requested(t2))

\* contents of the same length with a common prefix got different symbols,
\* one through new and one through new3
C4_Witness ==
    \E t1, t2 \in Returned :
       /\ th[t1].op = "new" /\ th[t2].op = "new3"
       /\ Len(Requested(t1)) = Len(Requested(t2)) /\ Len(Requested(t1)) >= 2
       /\ Requested(t1)[1] = Requested(t2)[1]
       /\ Requested(t1) # Requested(t2)
       /\ ~SymEq(th[t1].res, th[t2].res)

\* C5: under every interleaving of the threads' calls the table holds each
\* content at most once, and every call returns an entry that holds the
\* content it asked for, so racing calls for one content get one symbol and
\* racing calls for different contents each get their own.
C5_OneEntryPerContent ==
    /\ \A content \in Strs : Cardinality(EntriesOf(content)) <= 1
    /\ \A t \in Returned : EntriesOf(Requested(t)) = {th[t].res}

\* two threads missed the same absent content at the same time, through
\* different key shapes; one inserted it and the other found that entry
C5_Witness ==
    \E t1, t2 \in Returned :
       /\ th[t1].how = "inserted" /\ th[t2].how = "found"
       /\ th[t1].op = "new3" /\ th[t2].op = "from_string"
       /\ Requested(t1) = Requested(t2)
       /\ th[t1].res = th[t2].res

\* C9: a symbol is serialized to its text content, and the text decoded by
\* visit_str or visit_string gives a symbol equal to the serialized one;
\* decoding a text the table does not hold adds exactly one entry, holding
\* that text.
C9_SerdeRoundTrip ==
    /\ [](\A t \in Returned :
            th[t].op \in {"visit_str", "visit_string"} =>
               /\ th[t].res \in Symbols
               /\ as_str(th[t].res) = th[t].args[1]
               /\ th[t].src # 0 => SymEq(th[t].res, th[t].src))
    /\ [][\A t \in Threads :
            (/\ th[t].pc = "slow" /\ th'[t].pc = "ret"
             /\ th[t].op \in {"visit_str", "visit_string"}
             /\ EntriesOf(th[t].args[1]) = {})
               => /\ Len(table') = Len(table) + 1
                  /\ SubSeq(table', 1, Len(table)) = table
                  /\ table'[Len(table')].data = th[t].args[1]
                  /\ th'[t].res = Len(table')]_vars

\* a symbol decoded from its own serialized text through visit_string while
\* another thread holds an entry that decoding a foreign text added
C9_Witness ==
    \E t1, t2 \in Returned :
       /\ th[t1].op = "visit_string" /\ th[t1].src # 0 /\ th[t1].res = th[t1].src
       /\ th[t2].op = "visit_str" /\ th[t2].src = 0 /\ th[t2].how = "inserted"
       /\ Len(th[t1].args[1]) >= 2

\* the content a call with these arguments asks for
ContentOf(args) == IF Len(args) = 3 THEN args[1] \o args[2] \o args[3] ELSE args[1]

\* C11: a step of an intern call whose content has an entry leaves the table
\* as it is and returns that entry; a step of a call whose content has no
\* entry either leaves the table as it is and goes on to the insert, or is
\* the insert and appends exactly one entry, which holds the content.
C11_HitLeavesTable ==
    [][\A t \in Threads :
          (th'[t] # th[t] /\ th'[t].pc \in {"ret", "slow", "panic"}) =>
             IF EntriesOf(ContentOf(th'[t].args)) # {}
             THEN /\ table' = table
                  /\ th'[t].pc = "ret"
                  /\ th'[t].res \in EntriesOf(ContentOf(th'[t].args))
             ELSE IF th[t].pc = "slow"
             THEN /\ Len(table') = Len(table) + 1
                  /\ SubSeq(table', 1, Len(table)) = table
                  /\ table'[Len(table')].data = ContentOf(th[t].args)
                  /\ th'[t].pc = "ret" /\ th'[t].res = Len(table')
             ELSE /\ table' = table
                  /\ th'[t].pc = "slow"]_vars

\* new3 returned the existing entry of its content without touching the
\* table, next to an entry that a call for absent content added
C11_Witness ==
    \E t1, t2 \in Returned :
       /\ th[t1].op = "new3" /\ th[t1].how = "hit" /\ th[t1].res = 1
       /\ th[t1].args[2] # <<>> /\ th[t1].args[3] # <<>>
       /\ th[t2].how = "inserted" /\ th[t2].res = 2
       /\ Len(table) = 2

\* C12: the table only grows at its end: every entry stays where it is with
\* the content it has, so a symbol that was returned keeps giving, through
\* as_str, the content it was interned with.
C12_AppendOnly ==
    /\ [][\A s \in Symbols : s \in Symbols' /\ as_str(s)' = as_str(s)]_vars
    /\ [](\A t \in Returned : th[t].res \in Symbols /\ as_str(th[t].res) = Requested(t))

\* a thread still holds the first symbol after another content was added
C12_Witness ==
    \E t1, t2 \in Returned :
       /\ th[t1].res = 1 /\ th[t1].how = "inserted" /\ as_str(1) = Requested(t1)
       /\ th[t2].res = 2 /\ th[t2].how = "inserted"
       /\ as_str(1) # as_str(2)

\* x is before y in lexicographic byte order
LexLess(x, y) ==
    \E k \in 1..(Len(y)) :
       /\ \A n \in 1..(k - 1) : n <= Len(x) /\ x[n] = y[n]
       /\ \/ k = Len(x) + 1
          \/ k <= Len(x) /\ x[k] < y[k]

C13_EquivTripleIsConcatEq ==
    probe.eqv # "none" =>
       /\ probe.eqv # "panic"
       /\ (probe.eqv = "true") <=> (probe.a \o probe.b \o probe.c = probe.x)
       /\ Len(probe.a) + Len(probe.b) + Len(probe.c) # Len(probe.x) => probe.eqv = "false"
       /\ Len(probe.a) + Len(probe.b) + Len(probe.c) = Len(probe.x) =>
             /\ Len(probe.a) <= Len(probe.x)
             /\ Len(probe.b) <= Len(probe.x) - Len(probe.a)

\* a match with an empty first part and both splits inside the content
C13_Witness ==
    /\ probe.eqv = "true"
    /\ probe.a = <<>> /\ probe.b # <<>> /\ probe.c # <<>>
    /\ probe.x = probe.b \o probe.c

\* C19: the triple key writes the bytes of a, b and c in this order, which
\* is the byte stream the &str, String and Box<str> keys write for
\* a ++ b ++ c, so both give the same hash.
C19_SameByteStream ==
    probe.hashed =>
       /\ probe.h3 = probe.a \o probe.b \o probe.c
       /\ probe.h3 = probe.h1
       /\ Finish(probe.h3) = Finish(probe.h1)

C19_Witness ==
    /\ probe.hashed
    /\ probe.a # <<>> /\ probe.b # <<>> /\ probe.a # probe.b
    /\ probe.h3 = probe.h1

(***************************************************************************)
(* Properties of requires_sudo_recursively                                 *)
(***************************************************************************)
RECURSIVE HasPath(_, _, _)
\* there is a path of 1..k forward dependency edges from target t to m
HasPath(t, m, k) ==
    /\ k > 0
    /\ \/ m \in deps[t]
       \/ \E d \in deps[t] \cap targets : HasPath(d, m, k - 1)

DependsOn(t, m) == HasPath(t, m, Cardinality(targets))

\* the targets that carry the marker or depend, transitively, on one that does
RequiresSudo(marks) ==
    {t \in targets : t \in marks \/ \E m \in marks : DependsOn(t, m)}

Pushes == LET RECURSIVE Sum(_)
              Sum(S) == IF S = {} THEN 0
                        ELSE LET t == CHOOSE x \in S : TRUE
                             IN  pushed[t] + Sum(S \ {t})
          IN  Sum(targets)

\* C1: the returned set is exactly the set of targets that carry the marker
\* label or have a path of one or more forward dependency edges to one that
\* does: none is missing and no other target is included.
C1_ExactClosure == pc = "done" => sudos = RequiresSudo(uses_sudo)

\* a dependent of a dependent of... the mark is in, a dependency of a marked
\* target is out
C1_Witness ==
    /\ pc = "done"
    /\ \E t \in sudos \ uses_sudo, m \in uses_sudo, u \in targets \ sudos :
          m \in deps[t] /\ u \in deps[m]

\* C2: the propagate loop terminates with an empty work list, after at most
\* as many pops as there are targets, and every node of a cycle from which a
\* marked target is reachable is in the result.
C2_Terminates ==
    /\ <>(pc = "done" /\ todo = <<>>)
    /\ [](pops <= Cardinality(targets))
    /\ [](pc = "done" =>
            \A t \in targets :
               (DependsOn(t, t) /\ (t \in uses_sudo \/ \E m \in uses_sudo : DependsOn(t, m)))
                  => t \in sudos)

\* a cycle of two or more targets, one of them marked, has been closed
C2_Witness ==
    /\ pc = "done"
    /\ \E t, u \in sudos : t # u /\ u \in deps[t] /\ DependsOn(u, t) /\ uses_sudo \cap {t, u} # {}
    /\ pops >= 2

\* C6: for a fixed graph, the closure of a set of marked targets is a subset
\* of the closure of every larger set of marked targets.
C6_Monotone ==
    (pc = "done" /\ runs >= 2 /\ prevSudo \subseteq uses_sudo) => prev \subseteq sudos

C6_Witness ==
    /\ pc = "done" /\ runs >= 2
    /\ prevSudo # uses_sudo /\ prevSudo \subseteq uses_sudo /\ prevSudo # {}
    /\ prev # sudos /\ prev \subseteq sudos
    /\ \E t \in prev : t \notin prevSudo

\* C7: the result is determined by the target collection alone: a run that
\* enumerates the unchanged collection in any other order, and so pushes and
\* pops in another order, returns the same set.
C7_OrderIndependent ==
    (pc = "done" /\ runs >= 2 /\ prevSudo = uses_sudo) => sudos = prev

C7_Witness ==
    /\ pc = "done" /\ runs >= 2 /\ prevSudo = uses_sudo
    /\ order # FirstOrder(targets)
    /\ Cardinality(uses_sudo) >= 2
    /\ sudos # uses_sudo

\* C8: with no marked target (in particular with no target at all) nothing
\* is ever seeded or inserted and the function returns the empty set.
C8_NoMarkEmpty ==
    uses_sudo = {} => (sudos = {} /\ todo = <<>> /\ pc \in {"scan", "propagate", "done"})

\* an unmarked collection whose edges form a cycle has been processed
C8_Witness ==
    /\ pc = "done" /\ uses_sudo = {} /\ sudos = {}
    /\ \E t, u \in targets : t # u /\ u \in deps[t] /\ t \in deps[u]

\* C10: in one invocation every target is pushed onto the work list at most
\* once, seed pass and propagate loop together, so there are never more
\* pushes than targets.
C10_PushedOnce ==
    /\ \A t \in targets : pushed[t] <= 1
    /\ Pushes <= Cardinality(targets)

\* a seed that depends on another seed (6a) was pushed once, and so was a
\* target that depends on two marked targets
C10_Witness ==
    /\ pc = "done"
    /\ \E t \in uses_sudo : (deps[t] \cap uses_sudo) \ {t} # {} /\ pushed[t] = 1
    /\ \E t \in targets \ uses_sudo : Cardinality(deps[t] \cap uses_sudo) >= 2 /\ pushed[t] = 1

\* the targets that depend directly on t
Dependents(t) == {p \in targets : t \in deps[p]}

\* the targets on the work list
OnTodo == {todo[k] : k \in 1..Len(todo)}

C16_ClosedOffWorkList ==
    pc \in {"propagate", "parents", "done"} =>
       \A t \in sudos \ OnTodo : Dependents(t) \subseteq sudos

\* C16 (amended): in every state of the propagate loop every target of the
\* result that is neither on the work list nor the popped target whose
\* parents are being visited has all its direct dependents in the result;
\* with the work list empty the result is closed under direct dependents.
C16_ClosedOffWorkListButPopped ==
    /\ pc \in {"propagate", "parents", "done"} =>
          \A t \in sudos \ OnTodo :
             (pc = "parents" /\ t = lbl) \/ Dependents(t) \subseteq sudos
    /\ pc = "done" => \A t \in sudos : Dependents(t) \subseteq sudos

\* between two parents of the popped target: it is off the work list with a
\* dependent still missing, while a target processed before is closed
C16_Witness ==
    /\ pc = "parents"
    /\ ~(Dependents(lbl) \subseteq sudos)
    /\ \E t \in sudos \ OnTodo : t # lbl /\ Dependents(t) # {} /\ Dependents(t) \subseteq sudos

\* C17: the result and the work list hold only targets of the collection;
\* a dependency that names no target gets its entry in the reverse-adjacency
\* index like any other and goes no further.
C17_OnlyTargets ==
    /\ sudos \subseteq targets
    /\ OnTodo \subseteq targets
    /\ pc \in {"propagate", "parents", "done"} =>
          \A t \in targets : deps[t] \subseteq DOMAIN rdeps

\* a target of the result depends on an identity that names no target
C17_Witness ==
    /\ pc = "done"
    /\ \E t \in sudos : \E d \in deps[t] : d \notin targets /\ d \in DOMAIN rdeps /\ rdeps[d] = <<t>>

\* C18 as stated: in every state every target on the work list has its
\* identity key in the result set.
C18_TodoInSudos == OnTodo \subseteq sudos

\* C18 (amended): every target on the work list has its identity key in the
\* result set, except that in the seed pass a marked target is pushed first
\* and inserted by the next statement; in the propagate loop the insert
\* comes first.
C18_TodoInSudosButSeed ==
    /\ \A k \in 1..Len(todo) :
          todo[k] \in sudos \/ (pc = "seed" /\ k = Len(todo) /\ todo[k] = order[i])
    /\ pc # "seed" => OnTodo \subseteq sudos

\* the second seed has been pushed and is not yet inserted
C18_Witness ==
    /\ pc = "seed" /\ Len(todo) >= 2
    /\ todo[Len(todo)] \notin sudos
    /\ todo[1] \in sudos

====
